---- MODULE Spec2Model ----
(***************************************************************************)
(* Leave (outing) request lifecycle of the hostel backend.                 *)
(*                                                                         *)
(* The handlers of the leave controller are async functions: between two   *)
(* awaits that touch the leaves collection other requests run.  A handler  *)
(* that reads a leave and later writes it is therefore two steps: Begin    *)
(* (everything up to and including the read and the checks on what was     *)
(* read) and Save/Write (the write and the response).  A handler that      *)
(* touches the collection once is one step.                                *)
(*                                                                         *)
(* Parent profiles are a fixed directory: the leave handlers only read     *)
(* them.  Student profiles are read by the leave handlers and removed by   *)
(* the student controller's deleteStudent, which leaves the student's      *)
(* leaves in place; Spec is the leave controller alone, SpecWithDeletion   *)
(* runs it next to deleteStudent.  The model follows the leaves of         *)
(* LeaveIds; a handler reads and writes no leave but the one its :id names.*)
(*                                                                         *)
(* res is the response a step has just sent; Deliver takes it off the      *)
(* wire before the next step runs (res.json() completes within the step).  *)
(*                                                                         *)
(* Three neighbours of the leave controller are modelled next to it, each  *)
(* with a specification of its own over its own collections:               *)
(*   SpecStudents   createStudent of the student controller (users,        *)
(*                  students and parents it creates);                      *)
(*   SpecPayments   payMyFees, createRazorpayOrder and                     *)
(*                  verifyRazorpayPayment of the payment controller, each  *)
(*                  split at its awaits (fees and payments);               *)
(*   SpecReminders  the daily payment-reminder job, one step per await,    *)
(*                  with a step for an await that throws.                  *)
(***************************************************************************)
EXTENDS Naturals, Sequences, FiniteSets, Bags, TLC

\* ------------------------------------------------------------------ bounds
\* Requests that may be between their read and their write at one moment.
MaxInflight == 2

\* --------------------------------------------------------------- directory
\* null / undefined of a string-valued field or request parameter.
NULL == "null"
\* The null a findOne answers with when no document matches.
NoDoc == [none |-> TRUE]

Institutions == {"I1", "I2"}

\* req.user of the callers: {_id, role, institutionId} (set by the auth
\* middleware).  s0 and p0 are accounts without a Student / Parent profile;
\* s3, p3 and w2 belong to the second institution.
Users ==
  { [id |-> "s1", role |-> "student", institutionId |-> "I1"],
    [id |-> "s2", role |-> "student", institutionId |-> "I1"],
    [id |-> "s0", role |-> "student", institutionId |-> "I1"],
    [id |-> "s3", role |-> "student", institutionId |-> "I2"],
    [id |-> "p1", role |-> "parent",  institutionId |-> "I1"],
    [id |-> "p2", role |-> "parent",  institutionId |-> "I1"],
    [id |-> "p0", role |-> "parent",  institutionId |-> "I1"],
    [id |-> "p3", role |-> "parent",  institutionId |-> "I2"],
    [id |-> "w1", role |-> "warden",  institutionId |-> "I1"],
    [id |-> "w2", role |-> "warden",  institutionId |-> "I2"] }

UsersOfRole(r) == {u \in Users : u.role = r}

UserById(id) == CHOOSE u \in Users : u.id = id

\* Student collection: {_id, userId, institutionId}.
Students ==
  { [id |-> "S1", userId |-> "s1", institutionId |-> "I1"],
    [id |-> "S2", userId |-> "s2", institutionId |-> "I1"],
    [id |-> "S3", userId |-> "s3", institutionId |-> "I2"] }

\* Parent collection: {userId (unique), institutionId, studentId}.
Parents ==
  { [userId |-> "p1", institutionId |-> "I1", studentId |-> "S1"],
    [userId |-> "p2", institutionId |-> "I1", studentId |-> "S2"],
    [userId |-> "p3", institutionId |-> "I2", studentId |-> "S3"] }

\* The lookup that falls back to any Parent profile of the caller's institution.
ParentFindAny(u) ==
  LET found == {p \in Parents : p.institutionId = u.institutionId}
  IN  IF found = {} THEN NoDoc ELSE CHOOSE p \in found : TRUE

\* Parent.findOne({ userId: req.user._id, institutionId: req.user.institutionId })
ParentFindOne(u) ==
  LET found == {p \in Parents : p.userId = u.id /\ p.institutionId = u.institutionId}
  IN  IF found = {} THEN NoDoc ELSE CHOOSE p \in found : TRUE

\* ------------------------------------------------------------------ inputs
\* req.user of createLeaveRequest: the residents that file requests, one with
\* a Student profile and one without.  s2 and s3 file none: every leave they
\* name is another resident's.
Applicants == {UserById("s1"), UserById("s0")}

\* req.body.outDate / inDate: a day number, or 0 for an absent field.
Dates == 1..2
\* req.body of createLeaveRequest: a well-formed request, and the requests
\* that differ from it in one respect (reason empty, reason whitespace only,
\* type empty, a date absent, dates equal, dates reversed).
Body(reason, type, outDate, inDate) ==
  [reason |-> reason, type |-> type, outDate |-> outDate, inDate |-> inDate]
CreateBodies ==
  { Body("trip", "Home", 1, 2),
    Body("",     "Home", 1, 2),
    Body(" ",    "Home", 1, 2),
    Body("trip", "",     1, 2),
    Body("trip", "Home", 0, 2),
    Body("trip", "Home", 1, 0),
    Body("trip", "Home", 2, 2),
    Body("trip", "Home", 2, 1) }
\* req.body.status of the two decision handlers.
DecisionInputs == {"Approved", "Rejected", "Pending"}
\* req.body.rejectionReason: undefined (NULL) or a text.
RejectionReasons == {NULL, "unsafe"}

\* String.prototype.trim on the reasons of the model.
Trim(s) == IF s = " " THEN "" ELSE s

\* JavaScript truthiness of a string / absent request field.
Truthy(x) == x # NULL /\ x # ""

\* ------------------------------------------------------------------- state
VARIABLES
  leaves,    \* the leaves collection: leaves[i] is the document with _id i
  inflight,  \* bag of requests that have read their leave and not yet written
  res,       \* the response the last step sent, NoRes once delivered
  students,  \* the _ids of the Student documents (and their Users) that exist
  userDocs,    \* User documents createStudent has created
  studentDocs, \* Student documents createStudent has created
  parentDocs,  \* Parent documents createStudent has created
  fees,        \* the fees collection: fees[i] is the document with _id i
  payments,    \* the payments collection, in the order of creation
  paying,      \* payment requests that have read the pending fees and not yet written
  outbox,      \* reminder e-mails sent: a bag of <<recipient, fee _id>>
  job,         \* the reminder job: idle, or the fees found and where the run is
  today        \* the day of the reminder job's last run

directoryVars == <<userDocs, studentDocs, parentDocs>>
paymentVars == <<fees, payments, paying>>
reminderVars == <<outbox, job, today>>

\* What the leave controller neither reads nor writes.
outsideLeaves == <<directoryVars, paymentVars, reminderVars>>

vars == <<leaves, inflight, res, students, directoryVars, paymentVars, reminderVars>>

\* Student.findOne({ userId: req.user._id, institutionId: req.user.institutionId })
StudentFindOne(u) ==
  LET found == {s \in Students : /\ s.id \in students
                                 /\ s.userId = u.id
                                 /\ s.institutionId = u.institutionId}
  IN  IF found = {} THEN NoDoc ELSE CHOOSE s \in found : TRUE

\* The auth middleware lets a request through while the caller's User exists;
\* deleteStudent removes a student's User with the profile.
UserExists(u) == \A s \in Students : s.userId = u.id => s.id \in students

\* populate('studentId') of a leave: null once the student is deleted, and
\* the handler's next dereference of leave.studentId then throws.
StudentPopulated(leave) == leave.studentId \in students

\* The _id values a request may name; Leave.create assigns them in order.
LeaveIds == {1}

\* res.status(code).json({ success, message, ... })
Resp(code, message) == [status |-> code, message |-> message]
NoRes == Resp(0, "")

\* The lookup by _id alone, without the institution filter.
LeaveFindById(id, u) == IF id \in DOMAIN leaves THEN leaves[id] ELSE NoDoc

\* Leave.findOne({ _id: id, institutionId: req.user.institutionId })
LeaveFindOne(id, u) ==
  IF id \in DOMAIN leaves /\ leaves[id].institutionId = u.institutionId
    THEN leaves[id] ELSE NoDoc

\* ------------------------------------------------------------------ create
\* The required-fields check of createLeaveRequest.
MissingRequired(reason, type, outDate, inDate) ==
  ~Truthy(reason) \/ ~Truthy(type) \/ outDate \notin Dates \/ inDate \notin Dates

\* The date check that refuses only an out date after the in date.
DatesReversed(outDate, inDate) == outDate > inDate

\* The date check of createLeaveRequest: outDateObj >= inDateObj is refused.
DatesOutOfOrder(outDate, inDate) == outDate >= inDate

\* A new leave in the legacy initial status, filed under the caller's User.
NewLeaveLegacy(student, u, reason, type, outDate, inDate) ==
  [ studentId             |-> u.id,
    institutionId         |-> u.institutionId,
    reason                |-> Trim(reason),
    type                  |-> type,
    outDate               |-> outDate,
    inDate                |-> inDate,
    status                |-> "Pending",
    parentApprovalStatus  |-> "Pending",
    parentApprovedBy      |-> NULL,
    parentApprovedAt      |-> NULL,
    parentRejectionReason |-> NULL,
    approvedBy            |-> NULL,
    approvedAt            |-> NULL,
    rejectionReason       |-> NULL,
    statusHistory         |-> << [status |-> "Pending", role |-> "student",
                                  updatedBy |-> NULL, reason |-> NULL] >>,
    createdAt             |-> "now" ]

\* The document handed to Leave.create.
NewLeave(student, u, reason, type, outDate, inDate) ==
  [ studentId             |-> student.id,
    institutionId         |-> u.institutionId,
    reason                |-> Trim(reason),
    type                  |-> type,
    outDate               |-> outDate,
    inDate                |-> inDate,
    status                |-> "PendingParent",
    parentApprovalStatus  |-> "Pending",
    parentApprovedBy      |-> NULL,
    parentApprovedAt      |-> NULL,
    parentRejectionReason |-> NULL,
    approvedBy            |-> NULL,
    approvedAt            |-> NULL,
    rejectionReason       |-> NULL,
    statusHistory         |-> << [status |-> "PendingParent", role |-> "student",
                                  updatedBy |-> NULL, reason |-> NULL] >>,
    createdAt             |-> "now" ]

\* The Leave schema's validation on create: reason is a required string, and
\* a required string validator refuses the empty string.
LeaveSchemaAccepts(doc) == doc.reason # ""

createLeaveRequest(u, reason, type, outDate, inDate) ==
  /\ res = NoRes
  /\ UserExists(u)
  /\ UNCHANGED <<inflight, students>>
  /\ IF MissingRequired(reason, type, outDate, inDate)
       THEN /\ res' = Resp(400, "Please provide reason, type, out date, and in date")
            /\ UNCHANGED leaves
     ELSE IF DatesOutOfOrder(outDate, inDate)
       THEN /\ res' = Resp(400, "Out date must be before in date")
            /\ UNCHANGED leaves
     ELSE IF StudentFindOne(u) = NoDoc
       THEN /\ res' = Resp(404, "Student profile not found")
            /\ UNCHANGED leaves
     ELSE IF ~LeaveSchemaAccepts(NewLeave(StudentFindOne(u), u, reason, type, outDate, inDate))
       THEN /\ res' = Resp(500, "Server error while creating leave request")
            /\ UNCHANGED leaves
     ELSE /\ Len(leaves) < Cardinality(LeaveIds)
          /\ leaves' = Append(leaves,
                         NewLeave(StudentFindOne(u), u, reason, type, outDate, inDate))
          /\ res' = Resp(201, "Leave request submitted successfully")

\* ------------------------------------------------- requests between awaits
\* A request that has read its leave and passed its checks: the handler's
\* locals.  leave is the document as it was read; racedBy names the
\* handlers of the requests that had read the same status of the same leave
\* and have, since this request's read, written and answered success.
Call(op, u, id, decision, rejectionReason, leave) ==
  [ op |-> op, user |-> u.id, institutionId |-> u.institutionId, id |-> id,
    decision |-> decision, rejectionReason |-> rejectionReason,
    leave |-> leave, racedBy |-> {} ]

Calls == BagToSet(inflight)

CanBegin == BagCardinality(inflight) < MaxInflight

Enter(c) == inflight (+) SetToBag({c})

MarkRaced(e, c) ==
  IF e.id = c.id /\ e.leave.status = c.leave.status
    THEN [e EXCEPT !.racedBy = @ \cup {c.op}] ELSE e

\* The requests still in flight once c has written and answered success.
Leave200(c) ==
  LET rest   == inflight (-) SetToBag({c})
      S      == BagToSet(rest)
      Un(x)  == [x EXCEPT !.racedBy = @ \ {c.op}]
  IN  [ x \in {MarkRaced(e, c) : e \in S} |->
          (IF x \in S THEN rest[x] ELSE 0)
        + (IF Un(x) # x /\ Un(x) \in S /\ MarkRaced(Un(x), c) = x
             THEN rest[Un(x)] ELSE 0) ]

\* ------------------------------------------------------- guardian decision
\* ['Approved', 'Rejected'].includes(status)
ValidDecision(status) == status \in {"Approved", "Rejected"}

\* The ownership check weakened to a tenancy check.
ParentOwnsLeaveSameInstitution(leave, parent) == leave.institutionId = parent.institutionId

\* leave.studentId._id.toString() === parent.studentId.toString()
ParentOwnsLeave(leave, parent) == leave.studentId = parent.studentId

\* The status check that lets every leave the warden has not decided through.
NotDecidedByWarden(leave) == leave.status \in {"PendingParent", "ApprovedByParent"}

\* leave.status === 'PendingParent'
AwaitingParent(leave) == leave.status = "PendingParent"

\* newStatus of parentApproveOrReject
ParentNewStatus(status) ==
  IF status = "Approved" THEN "ApprovedByParent" ELSE "RejectedByParent"

\* reason of a history entry: status === 'Rejected' ? rejectionReason : undefined
EntryReason(status, rejectionReason) ==
  IF status = "Rejected" THEN rejectionReason ELSE NULL

ParentHistoryEntry(c) ==
  [ status |-> ParentNewStatus(c.decision), role |-> "parent",
    updatedBy |-> c.user, reason |-> EntryReason(c.decision, c.rejectionReason) ]

\* The guardian's save with the rejection reason written to the leave's reason.
ParentSaveDocIntoReason(cur, c) ==
  [ cur EXCEPT
      !.status               = ParentNewStatus(c.decision),
      !.parentApprovalStatus = c.decision,
      !.parentApprovedBy     = c.user,
      !.parentApprovedAt     = "now",
      !.reason               =
          IF c.decision = "Rejected" /\ c.rejectionReason # NULL
            THEN c.rejectionReason ELSE @,
      !.statusHistory        = Append(@, ParentHistoryEntry(c)) ]

\* leave.save() of parentApproveOrReject: the modified paths are $set and the
\* pushed history entry is $push-ed, on the document as it is stored now.
ParentSaveDoc(cur, c) ==
  [ cur EXCEPT
      !.status                = ParentNewStatus(c.decision),
      !.parentApprovalStatus  = c.decision,
      !.parentApprovedBy      = c.user,
      !.parentApprovedAt      = "now",
      !.parentRejectionReason =
          IF c.decision = "Rejected" /\ c.rejectionReason # NULL
            THEN c.rejectionReason ELSE @,
      !.statusHistory         = Append(@, ParentHistoryEntry(c)) ]

\* `Leave request ${status.toLowerCase()} by parent`
ParentOkMessage(status) ==
  IF status = "Approved" THEN "Leave request approved by parent"
                         ELSE "Leave request rejected by parent"

\* The guardian decision with the leave looked up before the guardian.
parentApproveOrRejectLookupFirst(u, id, status, rejectionReason) ==
  /\ res = NoRes
  /\ UNCHANGED <<leaves, students>>
  /\ IF ~ValidDecision(status)
       THEN /\ res' = Resp(400, "Invalid status. Must be Approved or Rejected")
            /\ UNCHANGED inflight
     ELSE IF LeaveFindOne(id, u) = NoDoc
       THEN /\ res' = Resp(404, "Leave request not found")
            /\ UNCHANGED inflight
     ELSE IF ParentFindOne(u) = NoDoc
       THEN /\ res' = Resp(403, "Parent profile not found")
            /\ UNCHANGED inflight
     ELSE IF ~AwaitingParent(LeaveFindOne(id, u))
       THEN /\ res' = Resp(400, "This leave request is not awaiting parent approval")
            /\ UNCHANGED inflight
     ELSE IF ~ParentOwnsLeave(LeaveFindOne(id, u), ParentFindOne(u))
       THEN /\ res' = Resp(403, "Not authorized to approve this leave request")
            /\ UNCHANGED inflight
     ELSE /\ CanBegin
          /\ inflight' = Enter(Call("parent", u, id, status,
                                    EntryReason(status, rejectionReason),
                                    LeaveFindOne(id, u)))
          /\ UNCHANGED res

\* parentApproveOrReject up to its status check.
parentApproveOrRejectBegin(u, id, status, rejectionReason) ==
  /\ res = NoRes
  /\ UNCHANGED <<leaves, students>>
  /\ IF ~ValidDecision(status)
       THEN /\ res' = Resp(400, "Invalid status. Must be Approved or Rejected")
            /\ UNCHANGED inflight
     ELSE IF ParentFindOne(u) = NoDoc
       THEN /\ res' = Resp(403, "Parent profile not found")
            /\ UNCHANGED inflight
     ELSE IF LeaveFindOne(id, u) = NoDoc
       THEN /\ res' = Resp(404, "Leave request not found")
            /\ UNCHANGED inflight
     ELSE IF ~StudentPopulated(LeaveFindOne(id, u))
       THEN /\ res' = Resp(500, "Server error while updating leave request")
            /\ UNCHANGED inflight
     ELSE IF ~ParentOwnsLeave(LeaveFindOne(id, u), ParentFindOne(u))
       THEN /\ res' = Resp(403, "Not authorized to approve this leave request")
            /\ UNCHANGED inflight
     ELSE IF ~AwaitingParent(LeaveFindOne(id, u))
       THEN /\ res' = Resp(400, "This leave request is not awaiting parent approval")
            /\ UNCHANGED inflight
     ELSE /\ CanBegin
          /\ inflight' = Enter(Call("parent", u, id, status,
                                    EntryReason(status, rejectionReason),
                                    LeaveFindOne(id, u)))
          /\ UNCHANGED res

\* parentApproveOrReject from leave.save() to the response.
parentApproveOrRejectSave(c) ==
  /\ res = NoRes
  /\ c.op = "parent"
  /\ UNCHANGED students
  /\ leaves' = [leaves EXCEPT ![c.id] = ParentSaveDoc(@, c)]
  /\ inflight' = Leave200(c)
  /\ res' = Resp(200, ParentOkMessage(c.decision))

\* --------------------------------------------------------- warden decision
\* The status check that also lets a leave still awaiting the guardian through.
ParentApprovedOrPending(leave) == leave.status \in {"ApprovedByParent", "PendingParent"}

\* leave.status === 'ApprovedByParent'
ParentApproved(leave) == leave.status = "ApprovedByParent"

WardenHistoryEntry(c) ==
  [ status |-> c.decision, role |-> "warden",
    updatedBy |-> c.user, reason |-> EntryReason(c.decision, c.rejectionReason) ]

\* updateData of updateLeaveStatus, applied by findOneAndUpdate to the
\* document as it is stored now: statusHistory is the array that was read
\* plus the new entry.  An undefined rejectionReason is either dropped from
\* the update or written as null, depending on the mongoose version; keepUndef
\* chooses.
WardenUpdateDoc(cur, c, keepUndef) ==
  [ cur EXCEPT
      !.status          = c.decision,
      !.approvedBy      = c.user,
      !.statusHistory   = Append(c.leave.statusHistory, WardenHistoryEntry(c)),
      !.approvedAt      = IF c.decision = "Approved" THEN "now" ELSE @,
      !.rejectionReason =
          IF c.decision = "Rejected"
            THEN (IF c.rejectionReason = NULL /\ keepUndef THEN @ ELSE c.rejectionReason)
            ELSE @ ]

\* `Leave request ${status.toLowerCase()} successfully`
WardenOkMessage(status) ==
  IF status = "Approved" THEN "Leave request approved successfully"
                         ELSE "Leave request rejected successfully"

\* updateLeaveStatus up to its status check.
updateLeaveStatusBegin(u, id, status, rejectionReason) ==
  /\ res = NoRes
  /\ UNCHANGED <<leaves, students>>
  /\ IF ~ValidDecision(status)
       THEN /\ res' = Resp(400, "Invalid status. Must be Approved or Rejected")
            /\ UNCHANGED inflight
     ELSE IF LeaveFindOne(id, u) = NoDoc
       THEN /\ res' = Resp(404, "Leave request not found")
            /\ UNCHANGED inflight
     ELSE IF ~ParentApproved(LeaveFindOne(id, u))
       THEN /\ res' = Resp(400, "Only parent-approved requests can be approved/rejected by warden")
            /\ UNCHANGED inflight
     ELSE /\ CanBegin
          /\ inflight' = Enter(Call("warden", u, id, status,
                                    EntryReason(status, rejectionReason),
                                    LeaveFindOne(id, u)))
          /\ UNCHANGED res

\* updateLeaveStatus from findOneAndUpdate to the response.  The response
\* reads updated.studentId.userId.name: with the student deleted the read
\* throws after the update is stored, and the catch block answers 500.
updateLeaveStatusWrite(c) ==
  /\ res = NoRes
  /\ c.op = "warden"
  /\ UNCHANGED students
  /\ \E keepUndef \in BOOLEAN :
       leaves' = [leaves EXCEPT ![c.id] = WardenUpdateDoc(@, c, keepUndef)]
  /\ IF StudentPopulated(leaves[c.id])
       THEN /\ inflight' = Leave200(c)
            /\ res' = Resp(200, WardenOkMessage(c.decision))
       ELSE /\ inflight' = inflight (-) SetToBag({c})
            /\ res' = Resp(500, "Server error while updating leave request")

\* ------------------------------------------------------------ cancellation
\* The ownership check weakened to a tenancy check.
StudentOwnsLeaveSameInstitution(leave, student) == leave.institutionId = student.institutionId

\* leave.studentId._id.toString() === student._id.toString()
StudentOwnsLeave(leave, student) == leave.studentId = student.id

\* ['Pending', 'PendingParent'].includes(leave.status)
Cancellable(leave) == leave.status \in {"Pending", "PendingParent"}

\* The cancellation's save that also takes the guardian's decision back.
CancelSaveDocReset(cur) ==
  [cur EXCEPT !.status = "Cancelled", !.parentApprovalStatus = "Pending",
              !.parentApprovedBy = NULL, !.parentApprovedAt = NULL]

\* leave.save() of cancelMyLeaveRequest: status is the one modified path.
CancelSaveDoc(cur) == [cur EXCEPT !.status = "Cancelled"]

\* cancelMyLeaveRequest up to its status check.
cancelMyLeaveRequestBegin(u, id) ==
  /\ res = NoRes
  /\ UserExists(u)
  /\ UNCHANGED <<leaves, students>>
  /\ IF StudentFindOne(u) = NoDoc
       THEN /\ res' = Resp(404, "Student profile not found")
            /\ UNCHANGED inflight
     ELSE IF LeaveFindOne(id, u) = NoDoc
       THEN /\ res' = Resp(404, "Leave request not found")
            /\ UNCHANGED inflight
     ELSE IF ~StudentPopulated(LeaveFindOne(id, u))
       THEN /\ res' = Resp(500, "Server error while cancelling leave request")
            /\ UNCHANGED inflight
     ELSE IF ~StudentOwnsLeave(LeaveFindOne(id, u), StudentFindOne(u))
       THEN /\ res' = Resp(403, "Not authorized to cancel this leave request")
            /\ UNCHANGED inflight
     ELSE IF ~Cancellable(LeaveFindOne(id, u))
       THEN /\ res' = Resp(400, "Only pending requests (before parent/warden approval) can be cancelled")
            /\ UNCHANGED inflight
     ELSE /\ CanBegin
          /\ inflight' = Enter(Call("cancel", u, id, NULL, NULL, LeaveFindOne(id, u)))
          /\ UNCHANGED res

\* cancelMyLeaveRequest from leave.save() to the response.
cancelMyLeaveRequestSave(c) ==
  /\ res = NoRes
  /\ c.op = "cancel"
  /\ UNCHANGED students
  /\ leaves' = [leaves EXCEPT ![c.id] = CancelSaveDoc(@)]
  /\ inflight' = Leave200(c)
  /\ res' = Resp(200, "Leave request cancelled successfully")

\* ---------------------------------------------------------------- listings
\* req.query.status of getAllLeaveRequests: absent (NULL) or a status.
StatusFilters == {NULL, "PendingParent", "ApprovedByParent"}

\* res.status(200).json({ success: true, leaves: formattedLeaves }): the ids of
\* the formatted leaves, in the order of the array.
ListResp(ids) == [status |-> 200, message |-> "", leaves |-> ids]

\* .sort({ createdAt: -1 }) on the documents a find matched, as their _ids:
\* newest first (Leave.create assigns the _ids in the order of createdAt).
RECURSIVE NewestFirst(_)
NewestFirst(ids) ==
  IF ids = {} THEN << >>
  ELSE LET newest == CHOOSE i \in ids : \A j \in ids : j <= i
       IN  <<newest>> \o NewestFirst(ids \ {newest})

\* The query of getAllLeaveRequests: { ...filter, institutionId }.
AllLeavesQuery(u, status) ==
  NewestFirst({i \in DOMAIN leaves :
                 /\ leaves[i].institutionId = u.institutionId
                 /\ (Truthy(status) => leaves[i].status = status)})

getAllLeaveRequests(u, status) ==
  /\ res = NoRes
  /\ res' = ListResp(AllLeavesQuery(u, status))
  /\ UNCHANGED <<leaves, inflight, students>>

\* The query of getMyLeaveRequests: { studentId: student._id, institutionId }.
MyLeavesQuery(u, student) ==
  NewestFirst({i \in DOMAIN leaves :
                 /\ leaves[i].studentId = student.id
                 /\ leaves[i].institutionId = u.institutionId})

getMyLeaveRequests(u) ==
  /\ res = NoRes
  /\ UserExists(u)
  /\ UNCHANGED <<leaves, inflight, students>>
  /\ IF StudentFindOne(u) = NoDoc
       THEN res' = Resp(404, "Student profile not found")
       ELSE res' = ListResp(MyLeavesQuery(u, StudentFindOne(u)))

\* ---------------------------------------------------------- student removal
\* deleteStudent of the student controller: the student's User and Student
\* documents are deleted, the student's leaves stay.
deleteStudent(u, sid) ==
  /\ res = NoRes
  /\ UNCHANGED <<leaves, inflight>>
  /\ IF \E s \in Students : /\ s.id = sid
                             /\ s.id \in students
                             /\ s.institutionId = u.institutionId
       THEN /\ students' = students \ {sid}
            /\ res' = Resp(200, "Student account deleted successfully")
       ELSE /\ res' = Resp(404, "Student not found")
            /\ UNCHANGED students

\* -------------------------------------------------------- student creation
\* req.body of createStudent: name, email, class and rollNumber, and the
\* optional guardianName and guardianEmail (NULL when the field is absent).
StudentBody(name, email, rollNumber, guardianName, guardianEmail) ==
  [ name |-> name, email |-> email, class |-> "10", rollNumber |-> rollNumber,
    guardianName |-> guardianName, guardianEmail |-> guardianEmail ]
StudentBodies ==
  { StudentBody(name, email, rollNumber, guardianName, guardianEmail) :
      name \in {"Al", "A"}, email \in {"a@x.in", "b@x.in", "a.x"},
      rollNumber \in {"r1", "r2"},
      guardianName \in {NULL, "Gu"}, guardianEmail \in {NULL, "g@x.in"} }
  \cup { StudentBody("", "a@x.in", "r1", NULL, NULL) }

\* The required-fields check of createStudent.
StudentDataMissing(b) ==
  ~Truthy(b.name) \/ ~Truthy(b.email) \/ ~Truthy(b.class) \/ ~Truthy(b.rollNumber)

\* The statements between the required-fields check and the e-mail check
\* assign to student.guardianName / guardianEmail when the field is not
\* undefined; student is the const declared further down the same block, so
\* the assignment throws a ReferenceError.
TouchesStudentBeforeDeclaration(b) == b.guardianName # NULL \/ b.guardianEmail # NULL

\* emailRegex.test(email): text, an @, text, a dot, text.
EmailWellFormed(email) == email \in {"a@x.in", "b@x.in", "g@x.in"}

\* name.trim().length < 2
NameTooShort(name) == name \in {"", "A"}

\* The answer of the outer catch block to an error that is no duplicate key,
\* validation or cast error: error.message, or the fixed text in production.
StudentServerErrors ==
  { Resp(500, "Cannot access 'student' before initialization"),
    Resp(500, "Server error. Please try again later.") }

\* _id of the User with this e-mail in this institution.
UserId(email, institutionId) == <<email, institutionId>>

\* User.findOne({ email, institutionId })
UserDocFindOne(email, institutionId) ==
  {d \in userDocs : d.email = email /\ d.institutionId = institutionId}

\* Student.findOne({ rollNumber, institutionId })
StudentDocFindOne(rollNumber, institutionId) ==
  {d \in studentDocs : d.rollNumber = rollNumber /\ d.institutionId = institutionId}

NewStudentUser(u, b) ==
  [ id |-> UserId(b.email, u.institutionId), email |-> b.email,
    role |-> "student", institutionId |-> u.institutionId ]

\* The Student document: its _id is modelled by its user's _id.
NewStudentDoc(u, b) ==
  [ id |-> UserId(b.email, u.institutionId), userId |-> UserId(b.email, u.institutionId),
    institutionId |-> u.institutionId, rollNumber |-> b.rollNumber,
    guardianEmail |-> b.guardianEmail ]

NewGuardianUser(u, b) ==
  [ id |-> UserId(b.guardianEmail, u.institutionId), email |-> b.guardianEmail,
    role |-> "parent", institutionId |-> u.institutionId ]

\* The users after the guardian step: the guardian's User is created unless a
\* User with the e-mail exists in the institution.
UsersWithGuardian(docs, u, b) ==
  IF \E d \in docs : d.email = b.guardianEmail /\ d.institutionId = u.institutionId
    THEN docs ELSE docs \cup {NewGuardianUser(u, b)}

\* The Parent documents after the guardian step: the user's Parent document
\* is created, or re-linked to the new student.
ParentsWithGuardian(u, b) ==
  LET guardianId == UserId(b.guardianEmail, u.institutionId)
      link == [ userId |-> guardianId, studentId |-> UserId(b.email, u.institutionId),
                institutionId |-> u.institutionId ]
  IN  {p \in parentDocs : ~(p.userId = guardianId /\ p.institutionId = u.institutionId)}
        \cup {link}

createStudent(u, b) ==
  /\ res = NoRes
  /\ IF StudentDataMissing(b)
       THEN /\ res' = Resp(400, "Please provide name, email, class, and rollNumber")
            /\ UNCHANGED directoryVars
     ELSE IF TouchesStudentBeforeDeclaration(b)
       THEN /\ res' \in StudentServerErrors
            /\ UNCHANGED directoryVars
     ELSE IF ~EmailWellFormed(b.email)
       THEN /\ res' = Resp(400, "Please provide a valid email address")
            /\ UNCHANGED directoryVars
     ELSE IF NameTooShort(b.name)
       THEN /\ res' = Resp(400, "Name must be at least 2 characters long")
            /\ UNCHANGED directoryVars
     ELSE IF UserDocFindOne(b.email, u.institutionId) # {}
       THEN /\ res' = Resp(400, "User with this email already exists")
            /\ UNCHANGED directoryVars
     ELSE IF StudentDocFindOne(b.rollNumber, u.institutionId) # {}
       THEN /\ res' = Resp(400, "Student with this roll number already exists")
            /\ UNCHANGED directoryVars
     ELSE /\ studentDocs' = studentDocs \cup {NewStudentDoc(u, b)}
          /\ IF Truthy(b.guardianEmail)
               THEN /\ userDocs' = UsersWithGuardian(userDocs \cup {NewStudentUser(u, b)}, u, b)
                    /\ parentDocs' = ParentsWithGuardian(u, b)
               ELSE /\ userDocs' = userDocs \cup {NewStudentUser(u, b)}
                    /\ UNCHANGED parentDocs
          /\ res' = Resp(201, "Student account created successfully. Temporary password has been sent to student email.")

\* ---------------------------------------------------------------- payments
\* A fee without a receipt number (the field is absent).
NoReceipt == 0
\* Fee.amount of the fees of the model.
FeeAmount == 100
\* createStudent creates two fees for a student: the admission fee and the
\* next payment.
MaxFees == 2
\* Razorpay orders that may be created.
MaxOrders == 1
\* Payment requests that may be between two of their awaits at one moment.
MaxPaying == 2

\* A Fee document as createStudent creates it: Pending, no receipt number,
\* no reminder sent.
PendingFee(studentId, institutionId, dueDate) ==
  [ studentId |-> studentId, institutionId |-> institutionId, amount |-> FeeAmount,
    dueDate |-> dueDate, status |-> "Pending", receiptNumber |-> NoReceipt,
    reminderSentAt |-> 0 ]

\* Student.findOne({ _id: studentId, institutionId: req.user.institutionId })
StudentFindById(studentId, u) ==
  LET found == {st \in Students : /\ st.id \in students
                                  /\ st.id = studentId
                                  /\ st.institutionId = u.institutionId}
  IN  IF found = {} THEN NoDoc ELSE CHOOSE st \in found : TRUE

\* resolvePayer(req, studentId): the student the caller pays for, or NoDoc.
resolvePayer(u, studentId) ==
  IF u.role = "warden" THEN
    IF studentId = NULL THEN NoDoc ELSE StudentFindById(studentId, u)
  ELSE IF u.role = "parent" THEN
    IF ParentFindOne(u) = NoDoc THEN NoDoc
    ELSE StudentFindById(ParentFindOne(u).studentId, u)
  ELSE StudentFindOne(u)

\* What a handler keeps of a fee it has read.
FeeRead(i) == [id |-> i, amount |-> fees[i].amount, receiptNumber |-> fees[i].receiptNumber]

\* Fee.find({ studentId, status: 'Pending', institutionId })
PendingFeesOf(studentId, u) ==
  { FeeRead(i) : i \in {j \in DOMAIN fees : /\ fees[j].studentId = studentId
                                            /\ fees[j].status = "Pending"
                                            /\ fees[j].institutionId = u.institutionId} }

\* Fee.find({ _id: { $in: feeIds }, status: 'Pending', institutionId })
PendingFeesIn(feeIds, u) ==
  { FeeRead(i) : i \in {j \in DOMAIN fees : /\ j \in feeIds
                                            /\ fees[j].status = "Pending"
                                            /\ fees[j].institutionId = u.institutionId} }

\* pendingFees.reduce((sum, fee) => sum + (fee.amount || 0), 0)
RECURSIVE TotalDue(_)
TotalDue(read) ==
  IF read = {} THEN 0
  ELSE LET f == CHOOSE x \in read : TRUE IN f.amount + TotalDue(read \ {f})

\* Receipt numbers held by a fee, a payment or a request that has generated one.
UsedReceipts ==
  {fees[i].receiptNumber : i \in DOMAIN fees}
    \cup {payments[i].receiptNumber : i \in DOMAIN payments}
    \cup {c.receipt : c \in BagToSet(paying)}

\* generateReceiptNumber(): a number no document holds.
generateReceiptNumber ==
  CHOOSE n \in 1..(Cardinality(UsedReceipts) + 1) :
    /\ n \notin UsedReceipts
    /\ \A m \in 1..(n - 1) : m \in UsedReceipts

\* The receipt a save writes: fee.receiptNumber || receipt.
ReceiptToWrite(f, receipt) == IF f.receiptNumber # NoReceipt THEN f.receiptNumber ELSE receipt

\* The unique sparse index on Fee.receiptNumber refuses a receipt number
\* another fee holds.
ReceiptIndexAccepts(fs, i, receipt) ==
  \A j \in DOMAIN fs : j # i => fs[j].receiptNumber # receipt

\* Promise.all over the saves of the fees read: the saves reach the database
\* in any order, each one writes status and receipt number of its fee unless
\* the index refuses it; rejected says whether any save failed.
RECURSIVE SaveAll(_, _, _)
SaveAll(fs, read, receipt) ==
  IF read = {} THEN { [fees |-> fs, rejected |-> FALSE] }
  ELSE UNION {
    LET r == ReceiptToWrite(f, receipt)
        ok == ReceiptIndexAccepts(fs, f.id, r)
        saved == IF ok
                   THEN [fs EXCEPT ![f.id].status = "Paid",
                                   ![f.id].receiptNumber = r]
                   ELSE fs
    IN  { [fees |-> o.fees, rejected |-> o.rejected \/ ~ok] :
            o \in SaveAll(saved, read \ {f}, receipt) }
    : f \in read }

\* The answer of a payment handler's catch block to a refused save.
DuplicateKey == Resp(500, "E11000 duplicate key error")

StartPaying(c) == paying' = paying (+) SetToBag({c})
StopPaying(c) == paying' = paying (-) SetToBag({c})
ContinuePaying(c, d) == paying' = (paying (-) SetToBag({c})) (+) SetToBag({d})
CanStartPaying == BagCardinality(paying) < MaxPaying

\* req.body.amount of payMyFees; 0 stands for a missing or non-positive amount.
PayAmounts == {0, FeeAmount, 2 * FeeAmount}

\* payMyFees up to the read of the pending fees and the checks on them.
payMyFeesBegin(u, amount) ==
  /\ res = NoRes
  /\ UNCHANGED <<fees, payments>>
  /\ LET student == IF u.role = "parent"
                      THEN IF ParentFindOne(u) = NoDoc THEN NoDoc
                           ELSE StudentFindById(ParentFindOne(u).studentId, u)
                      ELSE StudentFindOne(u)
     IN
     IF amount <= 0
       THEN res' = Resp(400, "Please provide a valid amount") /\ UNCHANGED paying
     ELSE IF u.role = "parent" /\ ParentFindOne(u) = NoDoc
       THEN res' = Resp(404, "Parent profile not found") /\ UNCHANGED paying
     ELSE IF student = NoDoc
       THEN res' = Resp(404, "Student profile not found") /\ UNCHANGED paying
     ELSE IF PendingFeesOf(student.id, u) = {}
       THEN res' = Resp(200, "No pending fees to pay") /\ UNCHANGED paying
     ELSE IF amount # TotalDue(PendingFeesOf(student.id, u))
       THEN res' = Resp(400, "Payment amount mismatch") /\ UNCHANGED paying
     ELSE /\ CanStartPaying
          /\ StartPaying([ op |-> "pay", at |-> "read", user |-> u.id,
                           studentId |-> student.id, amount |-> amount,
                           pendingFees |-> PendingFeesOf(student.id, u),
                           receipt |-> NoReceipt ])
          /\ UNCHANGED res

\* payMyFees: the receipt number and the saves of the fees read.
payMyFeesSaveFees(c) ==
  /\ res = NoRes
  /\ c.op = "pay" /\ c.at = "read"
  /\ UNCHANGED payments
  /\ \E o \in SaveAll(fees, c.pendingFees, generateReceiptNumber) :
       /\ fees' = o.fees
       /\ IF o.rejected
            THEN res' = DuplicateKey /\ StopPaying(c)
            ELSE /\ ContinuePaying(c, [c EXCEPT !.at = "saved",
                                                !.receipt = generateReceiptNumber])
                 /\ UNCHANGED res

\* The Payment document payMyFees creates.
PaidPayment(c) ==
  [ studentId |-> c.studentId, institutionId |-> UserById(c.user).institutionId,
    amount |-> c.amount, gateway |-> "Razorpay", status |-> "Completed",
    receiptNumber |-> c.receipt, feeIds |-> {f.id : f \in c.pendingFees},
    razorpayOrderId |-> 0, razorpayPaymentId |-> NULL, razorpaySignature |-> << >> ]

\* payMyFees: the Payment record and the response.
payMyFeesRecord(c) ==
  /\ res = NoRes
  /\ c.op = "pay" /\ c.at = "saved"
  /\ payments' = Append(payments, PaidPayment(c))
  /\ StopPaying(c)
  /\ res' = Resp(200, "Payment recorded successfully")
  /\ UNCHANGED fees

\* req.body.studentId of createRazorpayOrder (read for a warden only).
OrderStudentIds == {NULL, "S1"}

\* createRazorpayOrder up to the read of the pending fees.
createRazorpayOrderBegin(u, studentId) ==
  /\ res = NoRes
  /\ UNCHANGED <<fees, payments>>
  /\ LET student == resolvePayer(u, studentId) IN
     IF u.role = "warden" /\ studentId = NULL
       THEN res' = Resp(400, "Student ID is required") /\ UNCHANGED paying
     ELSE IF student = NoDoc
       THEN res' = Resp(404, "Student profile not found") /\ UNCHANGED paying
     ELSE IF PendingFeesOf(student.id, u) = {}
       THEN res' = Resp(200, "No pending fees to pay") /\ UNCHANGED paying
     ELSE /\ CanStartPaying
          /\ StartPaying([ op |-> "order", at |-> "read", user |-> u.id,
                           studentId |-> student.id,
                           amount |-> TotalDue(PendingFeesOf(student.id, u)),
                           pendingFees |-> PendingFeesOf(student.id, u),
                           receipt |-> generateReceiptNumber ])
          /\ UNCHANGED res

\* The Payment records createRazorpayOrder has created.
Orders == {i \in DOMAIN payments : payments[i].razorpayOrderId # 0}

\* The Payment document createRazorpayOrder creates; the order id Razorpay
\* answers with is modelled by the number of the order.
OrderPayment(c) ==
  [ studentId |-> c.studentId, institutionId |-> UserById(c.user).institutionId,
    amount |-> c.amount, gateway |-> "Razorpay", status |-> "Pending",
    receiptNumber |-> c.receipt, feeIds |-> {f.id : f \in c.pendingFees},
    razorpayOrderId |-> Cardinality(Orders) + 1,
    razorpayPaymentId |-> NULL, razorpaySignature |-> << >> ]

\* createRazorpayOrder after razorpay.orders.create: the Payment record and
\* the response.
createRazorpayOrderRecord(c) ==
  /\ res = NoRes
  /\ c.op = "order"
  /\ payments' = Append(payments, OrderPayment(c))
  /\ StopPaying(c)
  /\ res' = Resp(200, "")
  /\ UNCHANGED fees

\* crypto.createHmac('sha256', secret).update(`${orderId}|${paymentId}`).digest('hex')
Hmac(razorpayOrderId, razorpayPaymentId) == <<razorpayOrderId, razorpayPaymentId>>

\* req.body of verifyRazorpayPayment; order id 0, payment id NULL and the
\* empty signature stand for a missing field.
OrderIds == 0..MaxOrders
PaymentIds == {NULL, "pay_a"}
Signatures == {<< >>} \cup {Hmac(o, p) : o \in 1..MaxOrders, p \in {"pay_a", "pay_b"}}
VerifyBodies ==
  { [razorpayOrderId |-> o, razorpayPaymentId |-> p, razorpaySignature |-> g] :
      o \in OrderIds, p \in PaymentIds, g \in Signatures }

VerifyDetailsMissing(b) ==
  b.razorpayOrderId = 0 \/ b.razorpayPaymentId = NULL \/ b.razorpaySignature = << >>

\* The check that accepts every signature that is present.
SignaturePresent(b) == b.razorpaySignature # << >>

\* expected === razorpaySignature
SignatureMatches(b) == Hmac(b.razorpayOrderId, b.razorpayPaymentId) = b.razorpaySignature

\* Payment.findOne({ razorpayOrderId, institutionId: req.user.institutionId }):
\* the position of the record, 0 if there is none.
PaymentFindOne(razorpayOrderId, u) ==
  LET found == {i \in DOMAIN payments : /\ payments[i].razorpayOrderId = razorpayOrderId
                                        /\ payments[i].institutionId = u.institutionId}
  IN  IF found = {} THEN 0 ELSE CHOOSE i \in found : TRUE

\* verifyRazorpayPayment up to the read of the pending fees.
verifyRazorpayPaymentBegin(u, b) ==
  /\ res = NoRes
  /\ UNCHANGED <<fees, payments>>
  /\ LET found == PaymentFindOne(b.razorpayOrderId, u)
         student == IF u.role = "warden"
                      THEN StudentFindById(payments[found].studentId, u)
                      ELSE resolvePayer(u, NULL)
         pendingFees == IF payments[found].feeIds # {}
                          THEN PendingFeesIn(payments[found].feeIds, u)
                          ELSE PendingFeesOf(student.id, u)
     IN
     IF VerifyDetailsMissing(b)
       THEN res' = Resp(400, "Missing Razorpay payment details") /\ UNCHANGED paying
     ELSE IF ~SignatureMatches(b)
       THEN res' = Resp(400, "Payment signature verification failed") /\ UNCHANGED paying
     ELSE IF found = 0
       THEN res' = Resp(404, "Payment record not found") /\ UNCHANGED paying
     ELSE IF student = NoDoc
       THEN res' = Resp(404, "Student profile not found") /\ UNCHANGED paying
     ELSE IF pendingFees = {}
       THEN res' = Resp(200, "No pending fees to pay") /\ UNCHANGED paying
     ELSE /\ CanStartPaying
          /\ StartPaying([ op |-> "verify", at |-> "read", user |-> u.id,
                           studentId |-> student.id, payment |-> found,
                           razorpayPaymentId |-> b.razorpayPaymentId,
                           razorpaySignature |-> b.razorpaySignature,
                           pendingFees |-> pendingFees,
                           receipt |-> payments[found].receiptNumber ])
          /\ UNCHANGED res

\* verifyRazorpayPayment: the saves of the fees read.
verifyRazorpayPaymentSaveFees(c) ==
  /\ res = NoRes
  /\ c.op = "verify" /\ c.at = "read"
  /\ UNCHANGED payments
  /\ \E o \in SaveAll(fees, c.pendingFees, c.receipt) :
       /\ fees' = o.fees
       /\ IF o.rejected
            THEN res' = DuplicateKey /\ StopPaying(c)
            ELSE ContinuePaying(c, [c EXCEPT !.at = "saved"]) /\ UNCHANGED res

\* verifyRazorpayPayment: paymentRecord.save() and the response.
verifyRazorpayPaymentRecord(c) ==
  /\ res = NoRes
  /\ c.op = "verify" /\ c.at = "saved"
  /\ payments' = [payments EXCEPT ![c.payment].status = "Completed",
                                  ![c.payment].razorpayPaymentId = c.razorpayPaymentId,
                                  ![c.payment].razorpaySignature = c.razorpaySignature]
  /\ StopPaying(c)
  /\ res' = Resp(200, "Payment verified successfully")
  /\ UNCHANGED fees

\* ----------------------------------------------------------- reminder job
\* weekAhead.setDate(now.getDate() + 7)
Week == 7
\* Days on which the job runs.
MaxDay == 3

\* Fee.find({ status: 'Pending', dueDate: { $gte: now, $lte: weekAhead },
\*            reminderSentAt missing or null }) on day now; a fee without a
\* due date (0) matches no range.
RemindersDue(now) ==
  {i \in DOMAIN fees : /\ fees[i].status = "Pending"
                       /\ fees[i].dueDate # 0
                       /\ fees[i].dueDate >= now
                       /\ fees[i].dueDate <= now + Week
                       /\ fees[i].reminderSentAt = 0}

\* The documents of a find, in the order of their _id.
RECURSIVE InOrder(_)
InOrder(ids) ==
  IF ids = {} THEN << >>
  ELSE LET first == CHOOSE i \in ids : \A j \in ids : i <= j
       IN  <<first>> \o InOrder(ids \ {first})

\* Parent.findOne({ studentId: student._id })
ParentOfStudent(studentId) ==
  LET found == {p \in Parents : p.studentId = studentId}
  IN  IF found = {} THEN NoDoc ELSE CHOOSE p \in found : TRUE

\* The user of a student that populate finds.
StudentUser(studentId) == (CHOOSE st \in Students : st.id = studentId).userId

Idle == [at |-> "idle"]
\* The job after the fee at the head of the queue: the next fee, or the end
\* of the run.
NextFee(queue) ==
  IF Tail(queue) = << >> THEN Idle ELSE [at |-> "student", queue |-> Tail(queue)]

\* sendPaymentReminderEmail({ to, ... }) for a fee.
Send(to, feeId) == outbox' = outbox (+) SetToBag({<<to, feeId>>})

\* The cron callback starts: the query for the fees to remind of.
reminderRunStart ==
  /\ job = Idle
  /\ today < MaxDay
  /\ today' = today + 1
  /\ job' = IF RemindersDue(today + 1) = {} THEN Idle
            ELSE [at |-> "student", queue |-> InOrder(RemindersDue(today + 1))]
  /\ UNCHANGED <<fees, outbox>>

\* The loop body up to the e-mail to the student; a fee whose student is
\* gone is skipped.
reminderToStudent ==
  /\ job.at = "student"
  /\ IF fees[Head(job.queue)].studentId \notin students
       THEN job' = NextFee(job.queue) /\ UNCHANGED outbox
       ELSE /\ Send(StudentUser(fees[Head(job.queue)].studentId), Head(job.queue))
            /\ job' = [job EXCEPT !.at = "parent"]
  /\ UNCHANGED <<fees, today>>

\* The lookup of the parent and the e-mail to the parent.
reminderToParent ==
  /\ job.at = "parent"
  /\ LET parent == ParentOfStudent(fees[Head(job.queue)].studentId)
     IN  IF parent = NoDoc THEN UNCHANGED outbox
         ELSE Send(parent.userId, Head(job.queue))
  /\ job' = [job EXCEPT !.at = "save"]
  /\ UNCHANGED <<fees, today>>

\* fee.reminderSentAt = new Date(); await fee.save()
reminderMarkSent ==
  /\ job.at = "save"
  /\ fees' = [fees EXCEPT ![Head(job.queue)].reminderSentAt = today]
  /\ job' = NextFee(job.queue)
  /\ UNCHANGED <<outbox, today>>

\* An await of the loop throws (the mail server or the database fails): the
\* catch block logs the error and the run ends.
reminderRunFails ==
  /\ job # Idle
  /\ job' = Idle
  /\ UNCHANGED <<fees, outbox, today>>

\* ----------------------------------------------------------- specification
\* The leave controller's state at start.
InitLeaves ==
  /\ leaves = << >>
  /\ inflight = EmptyBag
  /\ res = NoRes
  /\ students = {s.id : s \in Students}

\* Nothing created by createStudent yet.
InitDirectory ==
  /\ userDocs = {}
  /\ studentDocs = {}
  /\ parentDocs = {}

\* No fee, no payment.
InitNoFees ==
  /\ fees = << >>
  /\ payments = << >>
  /\ paying = EmptyBag

\* The reminder job has not run.
InitReminders ==
  /\ outbox = EmptyBag
  /\ job = [at |-> "idle"]
  /\ today = 0

Init ==
  /\ InitLeaves
  /\ InitDirectory
  /\ InitNoFees
  /\ InitReminders

Create ==
  /\ UNCHANGED outsideLeaves
  /\ \E u \in Applicants, b \in CreateBodies :
       createLeaveRequest(u, b.reason, b.type, b.outDate, b.inDate)

ParentBegin ==
  /\ UNCHANGED outsideLeaves
  /\ \E u \in UsersOfRole("parent"), id \in LeaveIds,
     status \in DecisionInputs, rejectionReason \in RejectionReasons :
       parentApproveOrRejectBegin(u, id, status, rejectionReason)

ParentSave ==
  /\ UNCHANGED outsideLeaves
  /\ \E c \in Calls : parentApproveOrRejectSave(c)

WardenBegin ==
  /\ UNCHANGED outsideLeaves
  /\ \E u \in UsersOfRole("warden"), id \in LeaveIds,
     status \in DecisionInputs, rejectionReason \in RejectionReasons :
       updateLeaveStatusBegin(u, id, status, rejectionReason)

WardenWrite ==
  /\ UNCHANGED outsideLeaves
  /\ \E c \in Calls : updateLeaveStatusWrite(c)

CancelBegin ==
  /\ UNCHANGED outsideLeaves
  /\ \E u \in UsersOfRole("student"), id \in LeaveIds : cancelMyLeaveRequestBegin(u, id)

CancelSave ==
  /\ UNCHANGED outsideLeaves
  /\ \E c \in Calls : cancelMyLeaveRequestSave(c)

ListAll ==
  /\ UNCHANGED outsideLeaves
  /\ \E u \in UsersOfRole("warden"), status \in StatusFilters : getAllLeaveRequests(u, status)

ListMine ==
  /\ UNCHANGED outsideLeaves
  /\ \E u \in UsersOfRole("student") : getMyLeaveRequests(u)

DeleteStudent ==
  /\ UNCHANGED outsideLeaves
  /\ \E u \in UsersOfRole("warden"), s \in Students : deleteStudent(u, s.id)

\* The response leaves the server.
Deliver ==
  /\ res # NoRes
  /\ res' = NoRes
  /\ UNCHANGED <<leaves, inflight, students, outsideLeaves>>

Next ==
  \/ Deliver
  \/ Create
  \/ ParentBegin
  \/ ParentSave
  \/ WardenBegin
  \/ WardenWrite
  \/ CancelBegin
  \/ CancelSave
  \/ ListAll
  \/ ListMine

Spec == Init /\ [][Next]_vars

\* The leave controller next to the student controller's deleteStudent.
NextWithDeletion ==
  \/ Next
  \/ DeleteStudent

SpecWithDeletion == Init /\ [][NextWithDeletion]_vars

\* The student controller's createStudent on its own.
CreateStudent ==
  /\ UNCHANGED <<leaves, inflight, students, paymentVars, reminderVars>>
  /\ \E u \in UsersOfRole("warden"), b \in StudentBodies : createStudent(u, b)

NextStudents ==
  \/ Deliver
  \/ CreateStudent

SpecStudents == Init /\ [][NextStudents]_vars

\* The payment controller on its own: student S1 of the first institution
\* has one or more pending fees, due on day FirstDue.
FirstDue == 3
InitFees ==
  /\ fees \in { [i \in 1..n |-> PendingFee("S1", "I1", FirstDue)] : n \in 1..MaxFees }
  /\ payments = << >>
  /\ paying = EmptyBag

InitPayments == InitLeaves /\ InitDirectory /\ InitFees /\ InitReminders

\* Who calls: the resident, the guardian and a guardian without a profile
\* pay directly; the warden orders and verifies, and the warden of the other
\* institution and the guardian without a profile try to verify.
Payers == {UserById("s1"), UserById("p1"), UserById("p0")}
OrderCallers == {UserById("w1")}
Verifiers == {UserById("w1"), UserById("w2"), UserById("p0")}

outsidePayments == <<leaves, inflight, students, directoryVars, reminderVars>>

PayBegin ==
  /\ UNCHANGED outsidePayments
  /\ \E u \in Payers, amount \in PayAmounts : payMyFeesBegin(u, amount)
PaySaveFees ==
  /\ UNCHANGED outsidePayments
  /\ \E c \in BagToSet(paying) : payMyFeesSaveFees(c)
PayRecord ==
  /\ UNCHANGED outsidePayments
  /\ \E c \in BagToSet(paying) : payMyFeesRecord(c)
OrderBegin ==
  /\ UNCHANGED outsidePayments
  /\ Cardinality(Orders) + Cardinality({c \in BagToSet(paying) : c.op = "order"}) < MaxOrders
  /\ \E u \in OrderCallers, studentId \in OrderStudentIds :
       createRazorpayOrderBegin(u, studentId)
OrderRecord ==
  /\ UNCHANGED outsidePayments
  /\ \E c \in BagToSet(paying) : createRazorpayOrderRecord(c)
VerifyBegin ==
  /\ UNCHANGED outsidePayments
  /\ \E u \in Verifiers, b \in VerifyBodies : verifyRazorpayPaymentBegin(u, b)
VerifySaveFees ==
  /\ UNCHANGED outsidePayments
  /\ \E c \in BagToSet(paying) : verifyRazorpayPaymentSaveFees(c)
VerifyRecord ==
  /\ UNCHANGED outsidePayments
  /\ \E c \in BagToSet(paying) : verifyRazorpayPaymentRecord(c)

DeliverPayment ==
  /\ res # NoRes
  /\ res' = NoRes
  /\ UNCHANGED <<paymentVars, outsidePayments>>

NextPayments ==
  \/ DeliverPayment
  \/ PayBegin
  \/ PaySaveFees
  \/ PayRecord
  \/ OrderBegin
  \/ OrderRecord
  \/ VerifyBegin
  \/ VerifySaveFees
  \/ VerifyRecord

SpecPayments == InitPayments /\ [][NextPayments]_vars

\* The reminder job on its own: student S1 has one or two fees, each
\* Pending or Paid, without a due date or due on an early or a late day.
DueDates == {0, 2, 10}
PaidFee(studentId, institutionId, dueDate, receipt) ==
  [PendingFee(studentId, institutionId, dueDate) EXCEPT
     !.status = "Paid", !.receiptNumber = receipt]
InitFeesDue ==
  /\ fees \in UNION { [1..n -> {PendingFee("S1", "I1", d) : d \in DueDates}
                                \cup {PaidFee("S1", "I1", d, 1) : d \in DueDates}]
                      : n \in 1..MaxFees }
  /\ \A i \in DOMAIN fees : \A j \in DOMAIN fees :
       (i # j /\ fees[i].receiptNumber # NoReceipt)
         => fees[i].receiptNumber # fees[j].receiptNumber
  /\ payments = << >>
  /\ paying = EmptyBag

InitRemindersSpec == InitLeaves /\ InitDirectory /\ InitFeesDue /\ InitReminders

outsideReminders == <<leaves, inflight, res, students, directoryVars, payments, paying>>

RunStart == UNCHANGED outsideReminders /\ reminderRunStart
ToStudent == UNCHANGED outsideReminders /\ reminderToStudent
ToParent == UNCHANGED outsideReminders /\ reminderToParent
MarkSent == UNCHANGED outsideReminders /\ reminderMarkSent
RunFails == UNCHANGED outsideReminders /\ reminderRunFails

NextReminders ==
  \/ RunStart
  \/ ToStudent
  \/ ToParent
  \/ MarkSent
  \/ RunFails

SpecReminders == InitRemindersSpec /\ [][NextReminders]_vars

\* ================================================================== claims
\* The callers by role; the guardians that have a Parent profile; the two
\* statuses a decision request may carry.
Residents == UsersOfRole("student")
Guardians == UsersOfRole("parent")
Wardens == UsersOfRole("warden")
LinkedGuardians == {u \in Guardians : ParentFindOne(u) # NoDoc}
Decisions == {"Approved", "Rejected"}

\* The directed edges of the transition table.
Edges ==
  { <<"PendingParent", "ApprovedByParent">>, <<"PendingParent", "RejectedByParent">>,
    <<"PendingParent", "Cancelled">>,
    <<"ApprovedByParent", "Approved">>, <<"ApprovedByParent", "Rejected">> }

Terminal == {"Approved", "Rejected", "RejectedByParent", "Cancelled"}

IsPrefix(s, t) == Len(s) <= Len(t) /\ SubSeq(t, 1, Len(s)) = s

\* The step in which request c writes and answers.
SaveStep(c) ==
  \/ parentApproveOrRejectSave(c)
  \/ updateLeaveStatusWrite(c)
  \/ cancelMyLeaveRequestSave(c)

\* C1: in every step, every leave's status is unchanged or moves along an
\* edge of the transition table.
StatusMovesAlongEdges ==
  [][\A id \in DOMAIN leaves :
       \/ leaves'[id].status = leaves[id].status
       \/ <<leaves[id].status, leaves'[id].status>> \in Edges]_vars

\* C2: a leave whose status is Approved or Rejected has parentApprovalStatus
\* Approved, and its history holds a parent's ApprovedByParent entry before a
\* warden's entry.
FinalOnlyAfterGuardianApproval ==
  \A id \in DOMAIN leaves :
    leaves[id].status \in {"Approved", "Rejected"} =>
      /\ leaves[id].parentApprovalStatus = "Approved"
      /\ \E i, j \in DOMAIN leaves[id].statusHistory :
           /\ i < j
           /\ leaves[id].statusHistory[i].status = "ApprovedByParent"
           /\ leaves[id].statusHistory[i].role = "parent"
           /\ leaves[id].statusHistory[j].role = "warden"

\* The two races C3 names: c has been overtaken by a warden decision that read
\* the same ApprovedByParent leave, or is a guardian decision / cancellation
\* overtaken by the other of the two on the same PendingParent leave.
Overtaken(c) ==
  \/ c.op = "warden" /\ "warden" \in c.racedBy
  \/ c.op = "parent" /\ "cancel" \in c.racedBy
  \/ c.op = "cancel" /\ "parent" \in c.racedBy

\* C3: of two overlapping decisions that read the same status of a leave, the
\* one that writes second does not answer success and does not alter the
\* record.
RacingDecisionLoses ==
  [][\A c \in Calls :
       (Overtaken(c) /\ SaveStep(c)) => (res'.status # 200 /\ leaves' = leaves)]_vars

\* C4: a leave in a terminal status keeps that status in every step.
TerminalStatusIsFinal ==
  [][\A id \in DOMAIN leaves :
       leaves[id].status \in Terminal => leaves'[id].status = leaves[id].status]_vars

\* C5: a step that applies a transition (create, guardian decision, warden
\* decision, cancellation) leaves the statusHistory one entry longer, and the
\* last entry carries the leave's new status.
TransitionAppendsOneEntry ==
  [][/\ \A c \in Calls :
          SaveStep(c) =>
            /\ Len(leaves'[c.id].statusHistory) = Len(leaves[c.id].statusHistory) + 1
            /\ leaves'[c.id].statusHistory[Len(leaves'[c.id].statusHistory)].status
                 = leaves'[c.id].status
     /\ Len(leaves') > Len(leaves) =>
          /\ Len(leaves'[Len(leaves')].statusHistory) = 1
          /\ leaves'[Len(leaves')].statusHistory[1].status = leaves'[Len(leaves')].status
    ]_vars

\* C6: in every step, the stored statusHistory of every leave is a prefix of
\* the one stored after the step.
HistoryIsAppendOnly ==
  [][\A id \in DOMAIN leaves :
       IsPrefix(leaves[id].statusHistory, leaves'[id].statusHistory)]_vars

\* The role the transition table requires of the entry that records a status.
RoleOf(status) ==
  CASE status = "PendingParent" -> "student"
    [] status \in {"ApprovedByParent", "RejectedByParent"} -> "parent"
    [] status \in {"Approved", "Rejected"} -> "warden"
    [] OTHER -> "student"

\* C7: the first history entry of every leave is PendingParent, every two
\* consecutive entries are an edge of the table, and every entry has the role
\* the table requires.
HistoryFollowsTable ==
  \A id \in DOMAIN leaves :
    LET h == leaves[id].statusHistory IN
      /\ h[1].status = "PendingParent"
      /\ \A i \in DOMAIN h : h[i].role = RoleOf(h[i].status)
      /\ \A i \in 1..(Len(h) - 1) : <<h[i].status, h[i + 1].status>> \in Edges

GuardianMustBeLinked ==
  [][/\ \A c \in Calls :
          parentApproveOrRejectSave(c) =>
            /\ ParentFindOne(UserById(c.user)) # NoDoc
            /\ ParentFindOne(UserById(c.user)).studentId = leaves[c.id].studentId
     /\ \A u \in LinkedGuardians, id \in LeaveIds :
          ( /\ LeaveFindOne(id, u) # NoDoc
            /\ LeaveFindOne(id, u).studentId # ParentFindOne(u).studentId )
          => \A status \in Decisions, rejectionReason \in RejectionReasons :
               parentApproveOrRejectBegin(u, id, status, rejectionReason)
               => /\ res' = Resp(403, "Not authorized to approve this leave request")
                  /\ UNCHANGED <<leaves, inflight>>
    ]_vars

\* A guardian of another student has been refused on a leave that is no longer
\* awaiting the guardian.
UnlinkedGuardianRefused ==
  /\ res = Resp(403, "Not authorized to approve this leave request")
  /\ Len(leaves) = 1
  /\ leaves[1].status = "ApprovedByParent"

\* C10: a cancellation by a resident who does not own the leave answers 403
\* and changes nothing, whatever the leave's status; a status becomes Cancelled
\* only in the save of a cancellation issued by the leave's owner.
OnlyOwnerCancels ==
  [][/\ \A id \in DOMAIN leaves :
          (leaves'[id].status = "Cancelled" /\ leaves[id].status # "Cancelled") =>
            \E c \in Calls :
              /\ c.op = "cancel" /\ c.id = id
              /\ StudentFindOne(UserById(c.user)) # NoDoc
              /\ StudentFindOne(UserById(c.user)).id = leaves[id].studentId
              /\ cancelMyLeaveRequestSave(c)
     /\ \A u \in Residents, id \in LeaveIds :
          ( /\ StudentFindOne(u) # NoDoc
            /\ LeaveFindOne(id, u) # NoDoc
            /\ LeaveFindOne(id, u).studentId # StudentFindOne(u).id
            /\ cancelMyLeaveRequestBegin(u, id) )
          => /\ res' = Resp(403, "Not authorized to cancel this leave request")
             /\ UNCHANGED <<leaves, inflight>>
    ]_vars

\* Another resident has been refused on a leave its owner had cancelled.
NonOwnerCancelRefused ==
  /\ res = Resp(403, "Not authorized to cancel this leave request")
  /\ Len(leaves) = 1
  /\ leaves[1].status = "Cancelled"

\* C11: the owner's cancellation succeeds exactly when the leave's status is
\* PendingParent: a cancellation that saves and answers success finds the
\* leave in PendingParent, and the owner's cancellation of a leave in any
\* other status answers 400 and changes nothing.
CancelSucceedsOnlyFromPendingParent ==
  [][/\ \A c \in Calls :
          cancelMyLeaveRequestSave(c) => leaves[c.id].status = "PendingParent"
     /\ \A u \in Residents, id \in LeaveIds :
          ( /\ StudentFindOne(u) # NoDoc
            /\ LeaveFindOne(id, u) # NoDoc
            /\ LeaveFindOne(id, u).studentId = StudentFindOne(u).id
            /\ cancelMyLeaveRequestBegin(u, id) )
          => IF LeaveFindOne(id, u).status = "PendingParent"
               THEN inflight' # inflight /\ UNCHANGED <<leaves, res>>
               ELSE /\ res' = Resp(400, "Only pending requests (before parent/warden approval) can be cancelled")
                    /\ UNCHANGED <<leaves, inflight>>
    ]_vars

\* C12: a guardian decision, warden decision or cancellation that names a
\* leave of another institution answers 404 and changes nothing; a leave
\* changes only in the write of a request that names it and comes from the
\* leave's institution; the listings of the warden and of the resident (the
\* 200 answers with a leaves array) hold only leaves of the caller's
\* institution.
TenantIsolation ==
  [][/\ \A id \in DOMAIN leaves :
          /\ \A u \in LinkedGuardians :
               leaves[id].institutionId # u.institutionId
               => \A status \in Decisions, rejectionReason \in RejectionReasons :
                    parentApproveOrRejectBegin(u, id, status, rejectionReason)
                    => /\ res' = Resp(404, "Leave request not found")
                       /\ UNCHANGED <<leaves, inflight>>
          /\ \A u \in Wardens :
               leaves[id].institutionId # u.institutionId
               => \A status \in Decisions, rejectionReason \in RejectionReasons :
                    updateLeaveStatusBegin(u, id, status, rejectionReason)
                    => /\ res' = Resp(404, "Leave request not found")
                       /\ UNCHANGED <<leaves, inflight>>
          /\ \A u \in Residents :
               (leaves[id].institutionId # u.institutionId /\ StudentFindOne(u) # NoDoc)
               => ( cancelMyLeaveRequestBegin(u, id)
                    => /\ res' = Resp(404, "Leave request not found")
                       /\ UNCHANGED <<leaves, inflight>> )
          /\ leaves'[id] # leaves[id]
               => \E c \in Calls :
                    c.id = id /\ c.institutionId = leaves[id].institutionId /\ SaveStep(c)
     /\ (res = NoRes /\ res'.status = 200 /\ res'.message = "")
          => /\ \A u \in Wardens, status \in StatusFilters :
                  getAllLeaveRequests(u, status) =>
                    \A i \in 1..Len(res'.leaves) :
                      leaves[res'.leaves[i]].institutionId = u.institutionId
             /\ \A u \in Residents :
                  getMyLeaveRequests(u) =>
                    \A i \in 1..Len(res'.leaves) :
                      leaves[res'.leaves[i]].institutionId = u.institutionId
    ]_vars

\* A request from the other institution has been answered 404 on a leave
\* that exists and that its guardian had approved.
ForeignLeaveNotFound ==
  /\ res = Resp(404, "Leave request not found")
  /\ Len(leaves) = 1
  /\ leaves[1].status = "ApprovedByParent"

\* C13: a create request whose out date is not before its in date, equal
\* dates included, answers 400 and persists no leave.
OutDateMustPrecedeInDate ==
  [][\A b \in {x \in CreateBodies : /\ x.outDate \in Dates /\ x.inDate \in Dates
                                      /\ x.outDate >= x.inDate} :
       \A u \in Residents :
         createLeaveRequest(u, b.reason, b.type, b.outDate, b.inDate)
         => (res'.status = 400 /\ leaves' = leaves)]_vars

\* A create request has been refused for its dates, with no leave stored.
DateOrderRefused ==
  /\ res = Resp(400, "Out date must be before in date")
  /\ leaves = << >>

\* C14: a create request by a resident with a profile whose reason is empty
\* after trimming, or whose type is absent, answers 400 and persists no
\* leave; no stored leave has an empty reason.
ReasonAndTypeRequired ==
  [][/\ \A u \in Residents, b \in CreateBodies :
          ( /\ StudentFindOne(u) # NoDoc
            /\ Trim(b.reason) = "" \/ b.type = ""
            /\ createLeaveRequest(u, b.reason, b.type, b.outDate, b.inDate) )
          => (res'.status = 400 /\ leaves' = leaves)
     /\ \A id \in DOMAIN leaves' : leaves'[id].reason # ""
    ]_vars

\* C15: a create request that answers 201 has added exactly one leave and
\* changed no other; the new leave is in PendingParent with
\* parentApprovalStatus Pending, belongs to the caller's Student profile and
\* institution, has no guardian or warden decision field set, and its history
\* is the single entry {PendingParent, student}.
CreatePersistsOnePendingLeave ==
  [][\A u \in Residents, b \in CreateBodies :
       ( /\ res'.status = 201
         /\ createLeaveRequest(u, b.reason, b.type, b.outDate, b.inDate) )
       => /\ StudentFindOne(u) # NoDoc
          /\ Len(leaves') = Len(leaves) + 1
          /\ SubSeq(leaves', 1, Len(leaves)) = leaves
          /\ LET new == leaves'[Len(leaves')]
             IN  /\ new.status = "PendingParent"
                 /\ new.parentApprovalStatus = "Pending"
                 /\ new.studentId = StudentFindOne(u).id
                 /\ new.institutionId = u.institutionId
                 /\ new.parentApprovedBy = NULL
                 /\ new.parentApprovedAt = NULL
                 /\ new.parentRejectionReason = NULL
                 /\ new.approvedBy = NULL
                 /\ new.approvedAt = NULL
                 /\ new.rejectionReason = NULL
                 /\ Len(new.statusHistory) = 1
                 /\ new.statusHistory[1].status = "PendingParent"
                 /\ new.statusHistory[1].role = "student"]_vars

\* A create request has just been answered 201 and its leave is stored.
LeaveSubmitted ==
  /\ res = Resp(201, "Leave request submitted successfully")
  /\ Len(leaves) = 1

\* C16: a step that answers with an error (400, 403, 404 or 500) leaves the
\* leaves collection as it was before the step.
ErrorLeavesStoreUnchanged ==
  [][(res' # res /\ res'.status >= 400) => leaves' = leaves]_vars

Last(seq) == seq[Len(seq)]

\* The leave is as the guardian decision (status, rejectionReason) of u left it.
AppliedByParent(leave, u, status, rejectionReason) ==
  /\ leave.status = ParentNewStatus(status)
  /\ leave.parentApprovalStatus = status
  /\ leave.parentApprovedBy = u.id
  /\ Last(leave.statusHistory) =
       [ status |-> ParentNewStatus(status), role |-> "parent", updatedBy |-> u.id,
         reason |-> EntryReason(status, rejectionReason) ]

\* The leave is as the warden decision (status, rejectionReason) of u left it.
AppliedByWarden(leave, u, status, rejectionReason) ==
  /\ leave.status = status
  /\ leave.approvedBy = u.id
  /\ Last(leave.statusHistory) =
       [ status |-> status, role |-> "warden", updatedBy |-> u.id,
         reason |-> EntryReason(status, rejectionReason) ]

\* C17: a guardian decision, warden decision or cancellation issued again,
\* with the same arguments, on the leave as the first call left it answers
\* 400 and changes nothing.
ReissuedCallIsRefused ==
  [][/\ \A id \in DOMAIN leaves :
         \A u \in {v \in Guardians : v.id = leaves[id].parentApprovedBy},
            status \in Decisions, rejectionReason \in RejectionReasons :
          ( /\ AppliedByParent(leaves[id], u, status, rejectionReason)
            /\ parentApproveOrRejectBegin(u, id, status, rejectionReason) )
          => /\ res' = Resp(400, "This leave request is not awaiting parent approval")
             /\ UNCHANGED <<leaves, inflight>>
     /\ \A id \in DOMAIN leaves :
         \A u \in {v \in Wardens : v.id = leaves[id].approvedBy},
            status \in Decisions, rejectionReason \in RejectionReasons :
          ( /\ AppliedByWarden(leaves[id], u, status, rejectionReason)
            /\ updateLeaveStatusBegin(u, id, status, rejectionReason) )
          => /\ res' = Resp(400, "Only parent-approved requests can be approved/rejected by warden")
             /\ UNCHANGED <<leaves, inflight>>
     /\ \A u \in Residents, id \in DOMAIN leaves :
          ( /\ StudentFindOne(u) # NoDoc
            /\ leaves[id].studentId = StudentFindOne(u).id
            /\ leaves[id].status = "Cancelled"
            /\ cancelMyLeaveRequestBegin(u, id) )
          => /\ res' = Resp(400, "Only pending requests (before parent/warden approval) can be cancelled")
             /\ UNCHANGED <<leaves, inflight>>
    ]_vars

\* The guardian who approved the leave has been refused on asking again.
ParentReissueRefused ==
  /\ res = Resp(400, "This leave request is not awaiting parent approval")
  /\ Len(leaves) = 1
  /\ leaves[1].status = "ApprovedByParent"
  /\ Last(leaves[1].statusHistory).role = "parent"

\* C18: parentApprovalStatus is Pending exactly when the status is
\* PendingParent or Cancelled, Approved exactly when the status is
\* ApprovedByParent, Approved or Rejected, and Rejected exactly when the
\* status is RejectedByParent.
ParentApprovalMirrorsStatus ==
  \A id \in DOMAIN leaves :
    LET leave == leaves[id]
    IN  /\ leave.parentApprovalStatus = "Pending"
             <=> leave.status \in {"PendingParent", "Cancelled"}
        /\ leave.parentApprovalStatus = "Approved"
             <=> leave.status \in {"ApprovedByParent", "Approved", "Rejected"}
        /\ leave.parentApprovalStatus = "Rejected"
             <=> leave.status = "RejectedByParent"

\* C19: in every step every stored leave keeps its _id, institutionId,
\* studentId, createdAt, reason, type, outDate and inDate.
CreationFieldsNeverChange ==
  [][\A id \in DOMAIN leaves :
       /\ id \in DOMAIN leaves'
       /\ leaves'[id].institutionId = leaves[id].institutionId
       /\ leaves'[id].studentId = leaves[id].studentId
       /\ leaves'[id].createdAt = leaves[id].createdAt
       /\ leaves'[id].reason = leaves[id].reason
       /\ leaves'[id].type = leaves[id].type
       /\ leaves'[id].outDate = leaves[id].outDate
       /\ leaves'[id].inDate = leaves[id].inDate]_vars

\* A leave has been rejected by the warden after a guardian decision and
\* still carries the reason it was created with.
DecidedLeaveKeepsReason ==
  /\ Len(leaves) = 1
  /\ leaves[1].status = "Rejected"
  /\ leaves[1].parentApprovedBy # NULL
  /\ leaves[1].reason = "trip"

GuardianFields(leave) ==
  << leave.parentApprovalStatus, leave.parentApprovedBy,
     leave.parentApprovedAt, leave.parentRejectionReason >>

WardenFields(leave) == << leave.approvedBy, leave.approvedAt, leave.rejectionReason >>

WardenDecisionSetsItsFields ==
  [][\A c \in Calls :
       (updateLeaveStatusWrite(c) /\ res'.status = 200)
       => LET new == leaves'[c.id]
          IN  /\ new.status = c.decision
              /\ new.approvedBy # NULL <=> c.decision = "Approved"
              /\ c.decision = "Approved" => new.approvedBy = c.user
              /\ new.approvedAt # NULL <=> c.decision = "Approved"
              /\ new.rejectionReason # NULL <=> c.decision = "Rejected"]_vars

\* C22: a guardian decision that answers success leaves the status
\* ApprovedByParent or RejectedByParent according to the decision and
\* parentApprovalStatus equal to it; parentApprovedBy and parentApprovedAt
\* are set exactly when the decision is Approved, parentRejectionReason
\* exactly when it is Rejected.
ParentDecisionSetsItsFields ==
  [][\A c \in Calls :
       (parentApproveOrRejectSave(c) /\ res'.status = 200)
       => LET new == leaves'[c.id]
          IN  /\ new.status = ParentNewStatus(c.decision)
              /\ new.parentApprovalStatus = c.decision
              /\ new.parentApprovedBy # NULL <=> c.decision = "Approved"
              /\ new.parentApprovedAt # NULL <=> c.decision = "Approved"
              /\ new.parentRejectionReason # NULL <=> c.decision = "Rejected"]_vars

\* The guardians no document of the Parent collection names.
UnlinkedGuardians == {u \in Guardians : \A p \in Parents : p.userId # u.id}

\* C23: a guardian decision by a caller without a Parent profile answers 403,
\* a create or cancel by a caller without a Student profile answers 404 (for
\* a request the input checks let through; otherwise the input check's 400),
\* and in each case no leave is created or modified and no request proceeds
\* to a write.
UnresolvedCallerIsRefused ==
  [][/\ \A u \in UnlinkedGuardians, id \in LeaveIds,
           status \in DecisionInputs, rejectionReason \in RejectionReasons :
          parentApproveOrRejectBegin(u, id, status, rejectionReason)
          => /\ UNCHANGED <<leaves, inflight>>
             /\ res' = IF ValidDecision(status)
                         THEN Resp(403, "Parent profile not found")
                         ELSE Resp(400, "Invalid status. Must be Approved or Rejected")
     /\ \A u \in {v \in Residents : StudentFindOne(v) = NoDoc} :
          /\ \A b \in CreateBodies :
               createLeaveRequest(u, b.reason, b.type, b.outDate, b.inDate)
               => /\ UNCHANGED <<leaves, inflight>>
                  /\ IF MissingRequired(b.reason, b.type, b.outDate, b.inDate)
                          \/ DatesOutOfOrder(b.outDate, b.inDate)
                       THEN res'.status = 400
                       ELSE res' = Resp(404, "Student profile not found")
          /\ \A id \in LeaveIds :
               cancelMyLeaveRequestBegin(u, id)
               => /\ UNCHANGED <<leaves, inflight>>
                  /\ res' = Resp(404, "Student profile not found")
    ]_vars

\* A caller without a Parent profile has been refused on a leave that awaits
\* its guardian.
ProfilelessGuardianRefused ==
  /\ res = Resp(403, "Parent profile not found")
  /\ Len(leaves) = 1
  /\ leaves[1].status = "PendingParent"

\* C24: a guardian decision reports the first check that fails, in the order
\* guardian resolution, leave lookup, ownership, status: without a Parent
\* profile 403 whatever the leave id; with one and no such leave in the
\* institution 404; linked to another student 403 whatever the leave's
\* status; linked to the leave's student and the leave not PendingParent 400.
ParentChecksInOrder ==
  [][\A id \in LeaveIds, status \in Decisions, rejectionReason \in RejectionReasons :
       /\ \A u \in UnlinkedGuardians :
            parentApproveOrRejectBegin(u, id, status, rejectionReason)
            => res' = Resp(403, "Parent profile not found")
       /\ \A u \in LinkedGuardians :
            parentApproveOrRejectBegin(u, id, status, rejectionReason)
            => IF LeaveFindOne(id, u) = NoDoc
                 THEN res' = Resp(404, "Leave request not found")
               ELSE IF LeaveFindOne(id, u).studentId # ParentFindOne(u).studentId
                 THEN res' = Resp(403, "Not authorized to approve this leave request")
               ELSE IF LeaveFindOne(id, u).status # "PendingParent"
                 THEN res' = Resp(400, "This leave request is not awaiting parent approval")
               ELSE res' = res /\ inflight' # inflight]_vars

\* A caller without a Parent profile has been answered 403 for a leave id
\* that does not exist.
ProfilelessGuardianRefusedOnMissingLeave ==
  /\ res = Resp(403, "Parent profile not found")
  /\ leaves = << >>

\* C25: the last statusHistory entry of every stored leave carries the
\* leave's current status.
LastEntryShowsStatus ==
  \A id \in DOMAIN leaves :
    Last(leaves[id].statusHistory).status = leaves[id].status

\* C26: createStudent with name, email, class and rollNumber, an e-mail and a
\* roll number not yet used in the institution, and a guardianEmail answers
\* 201, and afterwards the institution has a User of role parent with that
\* e-mail and exactly one Parent document links that User to the new student.
CreateStudentLinksGuardian ==
  [][\A u \in Wardens, b \in StudentBodies :
       ( /\ ~StudentDataMissing(b)
         /\ EmailWellFormed(b.email)
         /\ ~NameTooShort(b.name)
         /\ Truthy(b.guardianEmail)
         /\ UserDocFindOne(b.email, u.institutionId) = {}
         /\ StudentDocFindOne(b.rollNumber, u.institutionId) = {}
         /\ createStudent(u, b) )
       => /\ res'.status = 201
          /\ \E g \in userDocs' :
               /\ g.email = b.guardianEmail
               /\ g.institutionId = u.institutionId
               /\ g.role = "parent"
               /\ Cardinality({p \in parentDocs' :
                                 /\ p.userId = g.id
                                 /\ p.studentId = UserId(b.email, u.institutionId)}) = 1
    ]_vars

\* The pay requests between two of their awaits.
PayCalls == {c \in BagToSet(paying) : c.op = "pay"}
\* The verify requests between two of their awaits.
VerifyCalls == {c \in BagToSet(paying) : c.op = "verify"}

\* C27: payMyFees is all-or-nothing: its saves either turn every fee it
\* read as Pending to Paid, and the call then adds one Completed Payment of
\* their sum, or end the call with no fee's status changed and no Payment
\* added; it never leaves some of the fees Paid and others Pending.
PayMyFeesAllOrNothing ==
  [][\A c \in PayCalls :
       /\ payMyFeesSaveFees(c) =>
            \/ /\ \A f \in c.pendingFees : fees'[f.id].status = "Paid"
               /\ res' = NoRes
            \/ /\ \A i \in DOMAIN fees : fees'[i].status = fees[i].status
               /\ payments' = payments
       /\ payMyFeesRecord(c) =>
            /\ Len(payments') = Len(payments) + 1
            /\ payments'[Len(payments')].status = "Completed"
            /\ payments'[Len(payments')].amount = TotalDue(c.pendingFees)
    ]_vars

\* C28: under any interleaving of payMyFees and verifyRazorpayPayment calls
\* for one student, no fee is listed by two Completed Payment records.
FeeCoveredByOneCompletedPayment ==
  \A i \in DOMAIN payments : \A j \in DOMAIN payments :
    ( /\ i # j
      /\ payments[i].status = "Completed"
      /\ payments[j].status = "Completed" )
    => payments[i].feeIds \cap payments[j].feeIds = {}

\* A Razorpay Payment record is Completed only if every fee it lists is Paid.
CompletedOnlyIfFeesPaid ==
  \A i \in DOMAIN payments :
    (payments[i].gateway = "Razorpay" /\ payments[i].status = "Completed")
      => \A f \in payments[i].feeIds : fees[f].status = "Paid"

\* A verify request gets past its checks, and a record is completed by one,
\* only with the HMAC of its order and payment id as signature and with a
\* Payment record for the order in the caller's institution.
VerifiedBeforeAnyWrite ==
  /\ \A c \in VerifyCalls :
       /\ c.razorpaySignature = Hmac(payments[c.payment].razorpayOrderId, c.razorpayPaymentId)
       /\ payments[c.payment].institutionId = UserById(c.user).institutionId
  /\ \A i \in Orders :
       payments[i].status = "Completed"
         => payments[i].razorpaySignature
              = Hmac(payments[i].razorpayOrderId, payments[i].razorpayPaymentId)

\* C29: verifyRazorpayPayment changes no Fee and no Payment record when the
\* signature is not the HMAC of orderId|paymentId or when the caller's
\* institution has no Payment record for the order, and a Razorpay Payment
\* record is Completed only if every fee it lists is Paid.
VerifyWritesOnlyWhenVerified ==
  /\ []CompletedOnlyIfFeesPaid
  /\ []VerifiedBeforeAnyWrite
  /\ [][( /\ res = NoRes
          /\ res'.message \in {"Payment signature verification failed",
                                "Payment record not found"} )
        => UNCHANGED paymentVars]_vars

\* A Razorpay order has been verified: its record is Completed.
OrderVerified ==
  /\ res = Resp(200, "Payment verified successfully")
  /\ \E i \in Orders : payments[i].status = "Completed"

\* The fee a reminder step is about.
CurrentFee == fees[Head(job.queue)]

\* C30: over any number of runs of the reminder job, runs that fail part-way
\* included, each recipient gets at most one reminder e-mail per fee; a
\* reminder is sent only for a fee that is Pending and due within the next
\* 7 days; and no step of the job changes the leaves.
AtMostOneReminderPerFee ==
  /\ [](\A e \in BagToSet(outbox) : CopiesIn(e, outbox) <= 1)
  /\ [][outbox' # outbox =>
          /\ CurrentFee.status = "Pending"
          /\ CurrentFee.dueDate >= today
          /\ CurrentFee.dueDate <= today + Week]_vars
  /\ [][NextReminders => UNCHANGED leaves]_vars
====
